---------------------------- MODULE Spec2Model ----------------------------
(***************************************************************************)
(* A model of exgen-cli: option resolution (src/utils/options.ts), option  *)
(* validation (src/utils/validation.ts), configuration merging             *)
(* (src/utils/config.ts) and the createProject pipeline                    *)
(* (src/commands/create.ts).                                               *)
(*                                                                         *)
(* A JavaScript options object is a TLA+ function whose DOMAIN is the set  *)
(* of keys present in the object; an object spread {...a, ...b} is         *)
(* Merge(a, b).                                                            *)
(***************************************************************************)
EXTENDS Integers, Sequences, FiniteSets, TLC

VARIABLES
    options,        \* the raw options handed to createProject / resolveOptions
    presetOrder,    \* the active preset flags of `options`, in the order supplied
    config,         \* the configuration file cosmiconfig discovers (if any)
    env,            \* lockfiles at the target path and package managers installed
    merged,         \* the result of mergeWithConfig
    validation,     \* the ValidationResult of validateOptions
    resolved,       \* the ResolvedOptions record
    pc,             \* position in the run
    projectName,    \* the name argument of createProject (<<>>: none given)
    target,         \* what is at the project path before the run
    checks,         \* the validation checks executed, with their results
    printed,        \* the warnings printed with logger.warn, in order
    thrown,         \* the error caught at the top level of createProject
    fsDone,         \* the filesystem mutations the run has performed
    stages,         \* the pipeline stages completed, with their outcomes
    exitCode,       \* the exit code of the process (-1 while it runs)
    packages,       \* the dependency lists computed from the resolved record
    exec,           \* the package-manager subprocesses of installDependencies
                    \* and the commands initializeGit has run
    answers         \* the answers given to the prompts of initProject

inVars == <<options, presetOrder, config, env, merged, validation>>

optVars == <<options, presetOrder, config, env, merged, validation, resolved>>

runVars ==
    <<projectName, target, answers, checks, printed, thrown, fsDone, stages, exitCode,
      packages, exec, answers>>

vars == <<optVars, pc, runVars>>

-----------------------------------------------------------------------------
(* Bounds of the model *)

\* The largest number of keys in a raw options object drawn by SpecResolve.
MaxFlags == 3

\* The largest number of command-line flags, and of configuration-file
\* defaults, drawn by SpecConfig.
MaxCliFlags == 2

MaxDefaults == 1

-----------------------------------------------------------------------------
(* ProjectOptions: src/generators/types/index.ts *)

PresetKeys ==
    {"light", "all", "prod", "min", "api", "fullstack", "microservice", "startup"}

StringKeys == {"view", "css"}

BoolKeys ==
    PresetKeys \cup
    {"git", "noView", "typescript", "javascript", "swagger", "docker",
     "mongodb", "postgres", "redis", "test", "elk", "auth", "cors", "helmet",
     "rateLimit", "validation", "skipInstall", "skipGit", "verbose", "dryRun"}

OptionKeys == BoolKeys \cup StringKeys

SUPPORTED_VIEW_ENGINES == {"ejs", "pug", "hbs", "hogan", "mustache", "handlebars"}

SUPPORTED_CSS_ENGINES == {"less", "sass", "scss", "stylus", "compass"}

\* The engine names the model supplies as inputs: supported ones and one
\* that is on neither allow-list.
ViewInputs == {"ejs", "pug", "jade"}

CssInputs == {"sass", "tailwind"}

ValuesOf(k) ==
    IF k = "view" THEN ViewInputs ELSE IF k = "css" THEN CssInputs ELSE BOOLEAN

EmptyOptions == [k \in {} |-> TRUE]

\* {...a, ...b}
Merge(a, b) ==
    [k \in (DOMAIN a) \cup (DOMAIN b) |-> IF k \in DOMAIN b THEN b[k] ELSE a[k]]

Has(o, k) == k \in DOMAIN o

\* JavaScript truthiness of o[k]: undefined, false and "" are falsy.
Truthy(o, k) ==
    /\ k \in DOMAIN o
    /\ IF k \in StringKeys THEN o[k] # "" ELSE o[k] = TRUE

-----------------------------------------------------------------------------
(* PRESET_DEFINITIONS: src/constants/index.ts *)

PRESET_DEFINITIONS ==
    [ light |-> [light |-> TRUE, typescript |-> TRUE],
      api |-> [api |-> TRUE, typescript |-> TRUE, cors |-> TRUE, helmet |-> TRUE,
               validation |-> TRUE, test |-> TRUE, noView |-> TRUE],
      fullstack |-> [fullstack |-> TRUE, view |-> "ejs", css |-> "sass",
                     auth |-> TRUE, mongodb |-> TRUE, test |-> TRUE],
      microservice |-> [microservice |-> TRUE, typescript |-> TRUE, docker |-> TRUE,
                        redis |-> TRUE, test |-> TRUE, elk |-> TRUE, noView |-> TRUE,
                        cors |-> TRUE, helmet |-> TRUE],
      startup |-> [startup |-> TRUE, typescript |-> TRUE, mongodb |-> TRUE,
                   auth |-> TRUE, swagger |-> TRUE, docker |-> TRUE, test |-> TRUE,
                   cors |-> TRUE, helmet |-> TRUE, rateLimit |-> TRUE,
                   validation |-> TRUE],
      prod |-> [prod |-> TRUE, typescript |-> TRUE, swagger |-> TRUE, docker |-> TRUE,
                test |-> TRUE, elk |-> TRUE, cors |-> TRUE, helmet |-> TRUE,
                rateLimit |-> TRUE],
      min |-> [min |-> TRUE, typescript |-> TRUE, test |-> TRUE, cors |-> TRUE,
               helmet |-> TRUE] ]

\* getPresetOptions whose lookup never finds the preset.
getPresetOptionsNotFound(presetName) == EmptyOptions

getPresetOptions(presetName) ==
    IF presetName \in DOMAIN PRESET_DEFINITIONS
    THEN PRESET_DEFINITIONS[presetName]
    ELSE EmptyOptions

getAllPresetOptions ==
    [typescript |-> TRUE, cors |-> TRUE, helmet |-> TRUE, rateLimit |-> TRUE,
     validation |-> TRUE, test |-> TRUE, elk |-> TRUE]


-----------------------------------------------------------------------------
(* Option resolution: src/utils/options.ts *)

\* `r` with preset `name` spread over it when the raw flag `name` is truthy.
applyOne(r, opts, name) ==
    IF Truthy(opts, name)
    THEN Merge(r, IF name = "all" THEN getAllPresetOptions ELSE getPresetOptions(name))
    ELSE r

\* The order of the `if` statements of applyPresets.
PresetPriority ==
    <<"light", "api", "fullstack", "microservice", "startup", "min", "prod", "all">>

RECURSIVE applyInOrder(_, _, _)
applyInOrder(r, opts, order) ==
    IF order = <<>> THEN r
    ELSE applyInOrder(applyOne(r, opts, Head(order)), opts, Tail(order))

\* applyPresets without the final re-application of the raw options.
applyPresetsNoReapply(opts) ==
    applyInOrder(opts, opts, PresetPriority)

applyPresets(opts) ==
    LET r1 == applyOne(opts, opts, "light")
        r2 == applyOne(r1, opts, "api")
        r3 == applyOne(r2, opts, "fullstack")
        r4 == applyOne(r3, opts, "microservice")
        r5 == applyOne(r4, opts, "startup")
        r6 == applyOne(r5, opts, "min")
        r7 == applyOne(r6, opts, "prod")
        r8 == applyOne(r7, opts, "all")
    IN  Merge(r8, opts)

\* resolveTypeScript with `options.light` missing from the preset test.
resolveTypeScriptNoLight(o) ==
    IF Truthy(o, "javascript") /\ ~Truthy(o, "typescript") THEN FALSE
    ELSE \E k \in {"typescript", "api", "microservice", "startup", "prod", "min"} :
            Truthy(o, k)

resolveTypeScript(o) ==
    IF Truthy(o, "javascript") /\ ~Truthy(o, "typescript") THEN FALSE
    ELSE IF \/ Truthy(o, "typescript")
            \/ Truthy(o, "api")
            \/ Truthy(o, "microservice")
            \/ Truthy(o, "startup")
            \/ Truthy(o, "prod")
            \/ Truthy(o, "min")
            \/ Truthy(o, "light")
         THEN TRUE
         ELSE FALSE

\* The template string `View: ${options.view}`.
ViewLabel(v) ==
    CASE v = "ejs" -> "View: ejs"
      [] v = "pug" -> "View: pug"
      [] v = "hbs" -> "View: hbs"
      [] v = "hogan" -> "View: hogan"
      [] v = "mustache" -> "View: mustache"
      [] v = "handlebars" -> "View: handlebars"
      [] v = "jade" -> "View: jade"
      [] OTHER -> "View: ?"

\* The template string `CSS: ${options.css}`.
CssLabel(c) ==
    CASE c = "less" -> "CSS: less"
      [] c = "sass" -> "CSS: sass"
      [] c = "scss" -> "CSS: scss"
      [] c = "stylus" -> "CSS: stylus"
      [] c = "compass" -> "CSS: compass"
      [] c = "tailwind" -> "CSS: tailwind"
      [] OTHER -> "CSS: ?"

ViewLabels ==
    {"View: ejs", "View: pug", "View: hbs", "View: hogan", "View: mustache",
     "View: handlebars", "View: jade", "View: ?", "View: EJS"}

\* features.push(label) when cond holds
PushIf(cond, features, label) == IF cond THEN Append(features, label) ELSE features

\* A feature list that reports the databases after the security features.
determineFeaturesSecurityFirst(o) ==
    LET f1 == IF resolveTypeScript(o) THEN <<"TypeScript">> ELSE <<"JavaScript">>
        f2 == PushIf(Truthy(o, "auth"), f1, "JWT Auth")
        f3 == PushIf(Truthy(o, "cors"), f2, "CORS")
        f4 == PushIf(Truthy(o, "mongodb"), f3, "MongoDB")
    IN  PushIf(Truthy(o, "postgres"), f4, "PostgreSQL")

determineFeatures(o) ==
    LET f1  == IF resolveTypeScript(o) THEN <<"TypeScript">> ELSE <<"JavaScript">>
        f2  == IF ~Truthy(o, "noView")
               THEN IF Truthy(o, "view") THEN Append(f1, ViewLabel(o["view"]))
                    ELSE IF Truthy(o, "fullstack") THEN Append(f1, "View: EJS")
                    ELSE f1
               ELSE f1
        f3  == IF Truthy(o, "css") THEN Append(f2, CssLabel(o["css"])) ELSE f2
        f4  == PushIf(Truthy(o, "mongodb"), f3, "MongoDB")
        f5  == PushIf(Truthy(o, "postgres"), f4, "PostgreSQL")
        f6  == PushIf(Truthy(o, "redis"), f5, "Redis")
        f7  == PushIf(Truthy(o, "auth"), f6, "JWT Auth")
        f8  == PushIf(Truthy(o, "cors"), f7, "CORS")
        f9  == PushIf(Truthy(o, "helmet"), f8, "Helmet")
        f10 == PushIf(Truthy(o, "rateLimit"), f9, "Rate Limiting")
        f11 == PushIf(Truthy(o, "validation"), f10, "Joi Validation")
        f12 == PushIf(Truthy(o, "swagger"), f11, "Swagger/OpenAPI")
        f13 == PushIf(Truthy(o, "test"), f12, "Jest Testing")
        f14 == PushIf(Truthy(o, "docker"), f13, "Docker")
        f15 == PushIf(Truthy(o, "elk"), f14, "ELK Logging")
    IN  PushIf(~(Has(o, "git") /\ o["git"] = FALSE), f15, "Git")

\* The view engine of a record, "" for undefined.
getFinalViewEngine(o) ==
    IF Truthy(o, "noView") THEN ""
    ELSE IF Truthy(o, "view") THEN o["view"]
    ELSE IF Truthy(o, "fullstack") THEN "ejs"
    ELSE ""

\* The CSS engine of a record, "" for undefined.
getFinalCSSEngine(o) ==
    IF Truthy(o, "css") THEN o["css"]
    ELSE IF Truthy(o, "fullstack") THEN "sass"
    ELSE ""

shouldIncludeFeature(feature, o) ==
    CASE feature = "view" -> ~Truthy(o, "noView") /\ getFinalViewEngine(o) # ""
      [] feature = "css" -> getFinalCSSEngine(o) # ""
      [] feature = "typescript" -> o["isTypescript"]
      [] feature \in {"mongodb", "postgres", "redis", "swagger", "docker", "test",
                      "auth", "cors", "helmet", "rateLimit", "validation", "elk"} ->
            Truthy(o, feature)
      [] OTHER -> FALSE

\* deps.push(...items) when cond holds
PushAll(cond, deps, items) == IF cond THEN deps \o items ELSE deps

\* A runtime list that leaves out the authentication packages.
getRequiredDependenciesNoAuth(o) ==
    PushAll(shouldIncludeFeature("mongodb", o), <<"express", "dotenv">>, <<"mongoose">>)

getRequiredDependencies(o) ==
    LET css == getFinalCSSEngine(o)
        d1  == PushAll(shouldIncludeFeature("cors", o), <<"express", "dotenv">>, <<"cors">>)
        d2  == PushAll(shouldIncludeFeature("view", o), d1,
                       <<"cookie-parser", "morgan", getFinalViewEngine(o)>>)
        d3  == IF ~shouldIncludeFeature("css", o) THEN d2
               ELSE IF css \in {"sass", "scss"} THEN Append(d2, "node-sass-middleware")
               ELSE IF css = "less" THEN Append(d2, "less-middleware")
               ELSE IF css = "stylus" THEN Append(d2, "stylus")
               ELSE d2
        d4  == PushAll(shouldIncludeFeature("mongodb", o), d3, <<"mongoose">>)
        d5  == PushAll(shouldIncludeFeature("postgres", o), d4, <<"sequelize", "pg">>)
        d6  == PushAll(shouldIncludeFeature("redis", o), d5, <<"ioredis">>)
        d7  == PushAll(shouldIncludeFeature("swagger", o), d6,
                       <<"swagger-jsdoc", "swagger-ui-express">>)
        d8  == PushAll(shouldIncludeFeature("auth", o), d7, <<"jsonwebtoken", "bcryptjs">>)
        d9  == PushAll(shouldIncludeFeature("helmet", o), d8, <<"helmet">>)
        d10 == PushAll(shouldIncludeFeature("rateLimit", o), d9, <<"express-rate-limit">>)
        d11 == PushAll(shouldIncludeFeature("validation", o), d10, <<"joi">>)
    IN  PushAll(shouldIncludeFeature("elk", o), d11, <<"winston", "winston-elasticsearch">>)

\* A development list that names the packages themselves instead of their
\* type declarations.
getRequiredDevDependenciesUntyped(o) ==
    LET ts == shouldIncludeFeature("typescript", o)
        t1 == PushAll(ts, <<"nodemon">>, <<"typescript", "ts-node", "tsx">>)
        t2 == PushAll(ts /\ shouldIncludeFeature("mongodb", o), t1, <<"mongoose">>)
    IN  PushAll(ts /\ shouldIncludeFeature("auth", o), t2, <<"jsonwebtoken", "bcryptjs">>)

getRequiredDevDependencies(o) ==
    LET ts  == shouldIncludeFeature("typescript", o)
        t1  == PushAll(ts, <<"nodemon">>,
                       <<"typescript", "@types/node", "@types/express", "ts-node", "tsx">>)
        t2  == PushAll(ts /\ shouldIncludeFeature("cors", o), t1, <<"@types/cors">>)
        t3  == PushAll(ts /\ shouldIncludeFeature("view", o) /\ getFinalViewEngine(o) = "ejs",
                       t2, <<"@types/ejs">>)
        t4  == PushAll(ts /\ shouldIncludeFeature("mongodb", o), t3, <<"@types/mongoose">>)
        t5  == PushAll(ts /\ shouldIncludeFeature("postgres", o), t4, <<"@types/pg">>)
        t6  == PushAll(ts /\ shouldIncludeFeature("redis", o), t5, <<"@types/redis">>)
        t7  == PushAll(ts /\ shouldIncludeFeature("swagger", o), t6,
                       <<"@types/swagger-jsdoc", "@types/swagger-ui-express">>)
        t8  == PushAll(ts /\ shouldIncludeFeature("auth", o), t7,
                       <<"@types/jsonwebtoken", "@types/bcryptjs">>)
        t9  == PushAll(ts /\ shouldIncludeFeature("helmet", o), t8, <<"@types/helmet">>)
        t10 == PushAll(ts /\ shouldIncludeFeature("validation", o), t9, <<"@types/joi">>)
        t11 == PushAll(shouldIncludeFeature("test", o), t10, <<"jest">>)
    IN  PushAll(shouldIncludeFeature("test", o) /\ o["isTypescript"], t11,
                <<"@types/jest", "ts-jest">>)

-----------------------------------------------------------------------------
(* Configuration: src/utils/config.ts *)

\* loadConfig: the discovered ExgenConfig, or null (found = FALSE) when no file
\* is found or reading it throws.  packageManager = "" stands for an undeclared
\* preference.
NoConfig ==
    [found |-> FALSE, hasDefaults |-> FALSE, defaults |-> EmptyOptions,
     packageManager |-> ""]

ConfigWith(defaults, pm) ==
    [found |-> TRUE, hasDefaults |-> TRUE, defaults |-> defaults,
     packageManager |-> pm]

mergeWithConfig(opts, cfg) ==
    IF ~cfg.found \/ ~cfg.hasDefaults THEN opts
    ELSE Merge(cfg.defaults, opts)

\* A detection that consults the configuration before the lockfiles.
detectPackageManagerConfigFirst(e, cfg) ==
    IF cfg.found /\ cfg.packageManager # "" THEN cfg.packageManager
    ELSE IF e.pnpmLock THEN "pnpm"
    ELSE IF e.yarnLock THEN "yarn"
    ELSE IF e.yarnOk THEN "yarn"
    ELSE IF e.pnpmOk THEN "pnpm"
    ELSE "npm"

\* e: whether pnpm-lock.yaml / yarn.lock exist at the project path, and whether
\* `yarn --version` / `pnpm --version` return (TRUE) or throw (FALSE).
detectPackageManager(e, cfg) ==
    IF e.pnpmLock THEN "pnpm"
    ELSE IF e.yarnLock THEN "yarn"
    ELSE IF cfg.found /\ cfg.packageManager # "" THEN cfg.packageManager
    ELSE IF e.yarnOk THEN "yarn"
    ELSE IF e.pnpmOk THEN "pnpm"
    ELSE "npm"

\* A target path without lockfiles on a machine with npm only.
CleanEnv == [pnpmLock |-> FALSE, yarnLock |-> FALSE, yarnOk |-> FALSE, pnpmOk |-> FALSE]

resolveOptions(name, path, opts) ==
    LET applied == applyPresets(opts) IN
    Merge(applied,
          [projectName |-> name,
           projectPath |-> path,
           packageManager |-> detectPackageManager(env, config),
           isTypescript |-> resolveTypeScript(applied),
           features |-> determineFeatures(applied)])

-----------------------------------------------------------------------------
(* Option validation: src/utils/validation.ts *)

ActivePresets(o) == {p \in PresetKeys : Truthy(o, p)}

\* A validation that rejects a bundle with more than one active preset.
validateOptionsOnePreset(o) ==
    LET many == Cardinality(ActivePresets(o)) > 1 IN
    [valid |-> ~many, errors |-> PushIf(many, <<>>, "Multiple presets specified"),
     warnings |-> <<>>]

validateOptions(o) ==
    LET badView == Truthy(o, "view") /\ o["view"] \notin SUPPORTED_VIEW_ENGINES
        badCss  == Truthy(o, "css") /\ o["css"] \notin SUPPORTED_CSS_ENGINES
        both    == Truthy(o, "noView") /\ Truthy(o, "view")
        e1 == PushIf(badView, <<>>, "Unsupported view engine")
        e2 == PushIf(badCss, e1, "Unsupported CSS engine")
        e3 == PushIf(both, e2, "Cannot specify both --no-view and --view")
        w1 == PushIf(Truthy(o, "typescript") /\ Truthy(o, "javascript"), <<>>,
                     "Both TypeScript and JavaScript flags specified")
        w2 == PushIf(Truthy(o, "mongodb") /\ Truthy(o, "postgres"), w1,
                     "Both MongoDB and PostgreSQL selected")
        w3 == PushIf(Cardinality(ActivePresets(o)) > 1, w2,
                     "Multiple presets specified")
    IN  [valid |-> ~(badView \/ badCss \/ both), errors |-> e3, warnings |-> w3]

NoValidation == [valid |-> TRUE, errors |-> <<>>, warnings |-> <<>>]

-----------------------------------------------------------------------------
(* SpecResolve: validateOptions and resolveOptions applied to a raw bundle *)

Range(s) == {s[i] : i \in DOMAIN s}

Unresolved == EmptyOptions

NoError == [kind |-> "none", errors |-> <<>>]

\* The state of the option variables before any input is given.
OptIdle ==
    /\ options = EmptyOptions
    /\ presetOrder = <<>>
    /\ config = NoConfig
    /\ env = CleanEnv
    /\ merged = EmptyOptions
    /\ validation = NoValidation
    /\ resolved = Unresolved

\* No prompt of the interactive flow has been answered.
NoAnswers == [language |-> "", projectType |-> "", additional |-> {}, proceed |-> FALSE]

\* A subprocess that has not been spawned: no child, no timer, a promise not
\* yet created.
NoProcess ==
    [command |-> <<>>, child |-> "none", timer |-> "idle", elapsed |-> 0,
     result |-> "pending", first |-> "none", resolveCalls |-> 0, signalled |-> <<>>]

\* No executeCommand call has been made and initializeGit has run no command.
NoExec == [runtime |-> NoProcess, dev |-> NoProcess, git |-> <<>>]

\* No dependency lists have been computed.
NoPackages == [dependencies |-> <<>>, devDependencies |-> <<>>]

\* The state of the run variables when no createProject run is in progress.
RunIdle ==
    /\ projectName = <<"d", "e", "m", "o", "-", "a", "p", "i">>
    /\ target = [state |-> "missing", parentWritable |-> TRUE, readable |-> TRUE]
    /\ checks = EmptyOptions
    /\ printed = <<>>
    /\ thrown = NoError
    /\ fsDone = {}
    /\ stages = <<>>
    /\ exitCode = -1
    /\ packages = NoPackages
    /\ exec = NoExec
    /\ answers = NoAnswers

PathOf(name) == IF name = <<>> THEN <<"cwd">> ELSE <<"cwd", name>>

InitResolve == OptIdle /\ RunIdle /\ pc = "input"

\* The caller puts one more flag into the raw options object (at most `max`).
Supply(max) ==
    /\ pc = "input"
    /\ Cardinality(DOMAIN options) < max
    /\ \E k \in OptionKeys \ DOMAIN options : \E v \in ValuesOf(k) :
          /\ options' = Merge(options, [x \in {k} |-> v])
          /\ presetOrder' = IF k \in PresetKeys /\ v = TRUE
                            THEN Append(presetOrder, k)
                            ELSE presetOrder
    /\ UNCHANGED <<config, env, merged, validation, resolved, pc, runVars>>

SupplyFlag == Supply(MaxFlags)

ValidateRaw ==
    /\ pc = "input"
    /\ validation' = validateOptions(options)
    /\ pc' = "validated"
    /\ UNCHANGED <<options, presetOrder, config, env, merged, resolved, runVars>>

ResolveRaw ==
    /\ pc = "validated"
    /\ resolved' = resolveOptions(projectName, PathOf(projectName), options)
    /\ pc' = "resolved"
    /\ UNCHANGED <<options, presetOrder, config, env, merged, validation, runVars>>

NextResolve == SupplyFlag \/ ValidateRaw \/ ResolveRaw

SpecResolve == InitResolve /\ [][NextResolve]_vars

-----------------------------------------------------------------------------
(* SpecConfig: the option steps of createProject (mergeWithConfig,           *)
(* validateOptions, resolveOptions) with a discovered configuration file     *)

InitConfig == OptIdle /\ RunIdle /\ pc = "input"

SupplyCliFlag == Supply(MaxCliFlags)

\* The configuration file found from the working directory declares one more
\* default.
DeclareDefault ==
    /\ pc = "input"
    /\ Cardinality(DOMAIN config.defaults) < MaxDefaults
    /\ \E k \in OptionKeys \ DOMAIN config.defaults : \E v \in ValuesOf(k) :
          config' = ConfigWith(Merge(config.defaults, [x \in {k} |-> v]),
                               config.packageManager)
    /\ UNCHANGED <<options, presetOrder, env, merged, validation, resolved, pc,
                   runVars>>

MergeConfigStep ==
    /\ pc = "input"
    /\ merged' = mergeWithConfig(options, config)
    /\ pc' = "cfgMerged"
    /\ UNCHANGED <<options, presetOrder, config, env, validation, resolved, runVars>>

ValidateMergedStep ==
    /\ pc = "cfgMerged"
    /\ validation' = validateOptions(merged)
    /\ pc' = IF validation'.valid THEN "cfgValidated" ELSE "cfgRejected"
    /\ UNCHANGED <<options, presetOrder, config, env, merged, resolved, runVars>>

ResolveMergedStep ==
    /\ pc = "cfgValidated"
    /\ resolved' = resolveOptions(projectName, PathOf(projectName), merged)
    /\ pc' = "cfgResolved"
    /\ UNCHANGED <<options, presetOrder, config, env, merged, validation, runVars>>

NextConfig ==
    \/ SupplyCliFlag
    \/ DeclareDefault
    \/ MergeConfigStep
    \/ ValidateMergedStep
    \/ ResolveMergedStep

SpecConfig == InitConfig /\ [][NextConfig]_vars

-----------------------------------------------------------------------------
(* SpecDetect: resolveOptions on a machine with lockfiles, a configuration    *)
(* file and package-manager executables                                      *)

\* The largest number of flags in the options object of a detection.
MaxDetectFlags == 1

\* What a configuration file declares as packageManager: nothing, a member of
\* the enumeration, or another string (the file is parsed, never validated).
DeclaredManagers == {"", "npm", "yarn", "pnpm", "bun"}

\* What explorer.search meets: no file, a file it cannot read or parse, or a
\* file with a packageManager entry.
ConfigFiles ==
    [state : {"none", "unreadable"}, packageManager : {""}] \cup
    [state : {"found"}, packageManager : DeclaredManagers]

\* loadConfig: the parsed content, or null when nothing is found or the search
\* throws.
loadConfig(f) ==
    IF f.state = "found" THEN ConfigWith(EmptyOptions, f.packageManager)
    ELSE NoConfig

InitDetect == OptIdle /\ RunIdle /\ pc = "input"

SupplyDetectFlag == Supply(MaxDetectFlags)

\* A lockfile is present at the project path.
FindLockfile ==
    /\ pc = "input"
    /\ \E k \in {"pnpmLock", "yarnLock"} :
          ~env[k] /\ env' = [env EXCEPT ![k] = TRUE]
    /\ UNCHANGED <<options, presetOrder, config, merged, validation, resolved, pc,
                   runVars>>

\* A package-manager executable answers `--version`.
InstallManager ==
    /\ pc = "input"
    /\ \E k \in {"yarnOk", "pnpmOk"} :
          ~env[k] /\ env' = [env EXCEPT ![k] = TRUE]
    /\ UNCHANGED <<options, presetOrder, config, merged, validation, resolved, pc,
                   runVars>>

\* The configuration search from the project path has this result.
DiscoverConfig ==
    /\ pc = "input"
    /\ config = NoConfig
    /\ \E f \in ConfigFiles : config' = loadConfig(f)
    /\ UNCHANGED <<options, presetOrder, env, merged, validation, resolved, pc,
                   runVars>>

DetectStep ==
    /\ pc = "input"
    /\ resolved' = resolveOptions(projectName, PathOf(projectName), options)
    /\ pc' = "detected"
    /\ UNCHANGED <<options, presetOrder, config, env, merged, validation, runVars>>

NextDetect ==
    \/ SupplyDetectFlag
    \/ FindLockfile
    \/ InstallManager
    \/ DiscoverConfig
    \/ DetectStep

SpecDetect == InitDetect /\ [][NextDetect]_vars

-----------------------------------------------------------------------------
(* SpecDeps: the dependency lists of a resolved record *)

\* The largest number of flags in the options object of a dependency
\* computation.
MaxDepFlags == 3

\* The options the dependency lists depend on: those shouldIncludeFeature,
\* getFinalViewEngine and getFinalCSSEngine read, and those that decide
\* isTypescript.
DepKeys ==
    {"view", "noView", "css", "fullstack", "typescript", "javascript", "api",
     "light", "cors", "mongodb", "postgres", "redis", "swagger", "auth",
     "helmet", "rateLimit", "validation", "elk", "test"}

InitDeps == OptIdle /\ RunIdle /\ pc = "input"

\* The caller puts one more of these flags into the raw options object.
SupplyDepFlag ==
    /\ pc = "input"
    /\ Cardinality(DOMAIN options) < MaxDepFlags
    /\ \E k \in DepKeys \ DOMAIN options : \E v \in ValuesOf(k) :
          /\ options' = Merge(options, [x \in {k} |-> v])
          /\ presetOrder' = IF k \in PresetKeys /\ v = TRUE
                            THEN Append(presetOrder, k)
                            ELSE presetOrder
    /\ UNCHANGED <<config, env, merged, validation, resolved, pc, runVars>>

ResolveDepsStep ==
    /\ pc = "input"
    /\ resolved' = resolveOptions(projectName, PathOf(projectName), options)
    /\ pc' = "depsResolved"
    /\ UNCHANGED <<options, presetOrder, config, env, merged, validation, runVars>>

\* installDependencies: both lists are computed from the resolved record.
ComputeDependencies ==
    /\ pc = "depsResolved"
    /\ packages' = [dependencies |-> getRequiredDependencies(resolved),
                    devDependencies |-> getRequiredDevDependencies(resolved)]
    /\ pc' = "dependencies"
    /\ UNCHANGED <<optVars, projectName, target, answers, exec, checks, printed, thrown,
                   fsDone, stages, exitCode>>

NextDeps == SupplyDepFlag \/ ResolveDepsStep \/ ComputeDependencies

SpecDeps == InitDeps /\ [][NextDeps]_vars

-----------------------------------------------------------------------------
(* SpecInstall: installDependencies and the subprocesses of executeCommand,  *)
(* src/utils/installer.ts                                                    *)

\* The timeout of executeCommand, in clock ticks of the model.
TimeoutTicks == 2

Classes == {"runtime", "dev"}

\* Promise resolve with last-call-wins instead of first-call-wins.
resolveOverwrites(p, v) ==
    [p EXCEPT !.result = v, !.resolveCalls = @ + 1]

\* resolve(v) of the promise executeCommand returns: the first call settles
\* the promise, later calls have no effect.
resolve(p, v) ==
    [p EXCEPT !.result = IF p.result = "pending" THEN v ELSE @,
              !.resolveCalls = @ + 1]

\* A handler that leaves the timer running.
clearTimeoutForgotten(p) == p

\* clearTimeout(timeoutId): a timer that has not fired is cancelled.
clearTimeout(p) ==
    [p EXCEPT !.timer = IF p.timer = "armed" THEN "cleared" ELSE @]

\* An installDependencies that goes on to the next class after a failure.
afterInstallPackagesAlways(class, result) ==
    IF class = "runtime" THEN "execDev" ELSE "installResolved"

\* installPackages throws unless result.success; installDependencies then
\* rethrows, and otherwise goes on to the next class.
afterInstallPackages(class, result) ==
    IF result # "success" THEN "installRejected"
    ELSE IF class = "runtime" THEN "execDev" ELSE "installResolved"

ClassAt(p) == IF p = "execRuntime" THEN "runtime" ELSE "dev"

\* The command and leading arguments for a package manager and a class.
getInstallCommand(packageManager, isDev) ==
    CASE packageManager = "yarn" ->
            IF isDev THEN <<"yarn", "add", "--dev">> ELSE <<"yarn", "add">>
      [] packageManager = "pnpm" ->
            IF isDev THEN <<"pnpm", "add", "--save-dev">> ELSE <<"pnpm", "add">>
      [] packageManager = "bun" ->
            IF isDev THEN <<"bun", "add", "--dev">> ELSE <<"bun", "add">>
      [] OTHER ->
            IF isDev THEN <<"npm", "install", "--save-dev">>
            ELSE <<"npm", "install", "--save">>

\* installDependencies is called with the record resolved for a project
\* without flags, under any configuration file, after both lists are computed.
InitInstall ==
    /\ options = EmptyOptions
    /\ presetOrder = <<>>
    /\ config \in {loadConfig(f) : f \in ConfigFiles}
    /\ env = CleanEnv
    /\ merged = EmptyOptions
    /\ validation = NoValidation
    /\ resolved = Merge(applyPresets(EmptyOptions),
                        [projectName |-> <<"d", "e", "m", "o", "-", "a", "p", "i">>,
                         projectPath |-> PathOf(<<"d", "e", "m", "o", "-", "a", "p", "i">>),
                         packageManager |-> detectPackageManager(CleanEnv, config),
                         isTypescript |-> resolveTypeScript(applyPresets(EmptyOptions)),
                         features |-> determineFeatures(applyPresets(EmptyOptions))])
    /\ projectName = <<"d", "e", "m", "o", "-", "a", "p", "i">>
    /\ target = [state |-> "emptyDir", parentWritable |-> TRUE, readable |-> TRUE]
    /\ checks = EmptyOptions
    /\ printed = <<>>
    /\ thrown = NoError
    /\ fsDone = {"projectDir", "projectFiles"}
    /\ stages = <<>>
    /\ exitCode = -1
    /\ packages = [dependencies |-> getRequiredDependencies(resolved),
                   devDependencies |-> getRequiredDevDependencies(resolved)]
    /\ exec = NoExec
    /\ answers = NoAnswers
    /\ pc = "execRuntime"

\* executeCommand: spawn the child and arm the timer.  A command that cannot
\* be started gives a child whose `error` event is pending.
SpawnChild ==
    /\ pc \in {"execRuntime", "execDev"}
    /\ exec[ClassAt(pc)].child = "none"
    /\ \E c \in {"running", "unspawnable"} :
          exec' = [exec EXCEPT
                     ![ClassAt(pc)].command =
                         getInstallCommand(resolved["packageManager"], pc = "execDev")
                         \o (IF pc = "execDev" THEN packages.devDependencies
                             ELSE packages.dependencies),
                     ![ClassAt(pc)].child = c,
                     ![ClassAt(pc)].timer = "armed"]
    /\ UNCHANGED <<optVars, pc, projectName, target, answers, checks, printed, thrown,
                   fsDone, stages, exitCode, packages>>

\* Time passes for a subprocess whose timer is armed.  The `error` event of
\* a failed spawn is emitted before any timer can run.
Tick ==
    /\ \E class \in Classes :
          /\ exec[class].timer = "armed"
          /\ exec[class].child # "unspawnable"
          /\ exec[class].elapsed < TimeoutTicks
          /\ exec' = [exec EXCEPT ![class].elapsed = @ + 1]
    /\ UNCHANGED <<optVars, pc, projectName, target, answers, checks, printed, thrown,
                   fsDone, stages, exitCode, packages>>

\* The setTimeout callback: child.kill("SIGTERM"), resolve with the timeout
\* error.
TimeoutFires ==
    /\ \E class \in Classes :
          LET p == exec[class] IN
          /\ p.timer = "armed"
          /\ p.elapsed = TimeoutTicks
          /\ exec' = [exec EXCEPT ![class] =
                resolve([p EXCEPT !.timer = "fired",
                                  !.signalled = Append(@, p.child),
                                  !.child = IF @ = "running" THEN "terminating" ELSE @,
                                  !.first = IF @ = "none" THEN "timeout" ELSE @],
                        "timeout")]
    /\ UNCHANGED <<optVars, pc, projectName, target, answers, checks, printed, thrown,
                   fsDone, stages, exitCode, packages>>

\* child.on("close"): clearTimeout, resolve by the exit code.  A child that
\* was sent SIGTERM may still exit with code 0.
ChildCloses ==
    /\ \E class \in Classes : \E code \in {0, 1} :
          LET p == exec[class] IN
          /\ p.child \in {"running", "terminating"}
          /\ exec' = [exec EXCEPT ![class] =
                resolve(clearTimeout(
                          [p EXCEPT !.child = "closed",
                                    !.first = IF @ = "none"
                                              THEN (IF code = 0 THEN "close0" ELSE "close1")
                                              ELSE @]),
                        IF code = 0 THEN "success" ELSE "exitNonZero")]
    /\ UNCHANGED <<optVars, pc, projectName, target, answers, checks, printed, thrown,
                   fsDone, stages, exitCode, packages>>

\* child.on("error"): clearTimeout, resolve with "Failed to start process".
ChildError ==
    /\ \E class \in Classes :
          LET p == exec[class] IN
          /\ p.child = "unspawnable"
          /\ exec' = [exec EXCEPT ![class] =
                resolve(clearTimeout(
                          [p EXCEPT !.child = "failed",
                                    !.first = IF @ = "none" THEN "error" ELSE @]),
                        "spawnError")]
    /\ UNCHANGED <<optVars, pc, projectName, target, answers, checks, printed, thrown,
                   fsDone, stages, exitCode, packages>>

\* await executeCommand(...) in installPackages continues once the promise
\* has settled.
AwaitResult ==
    /\ pc \in {"execRuntime", "execDev"}
    /\ exec[ClassAt(pc)].result # "pending"
    /\ pc' = afterInstallPackages(ClassAt(pc), exec[ClassAt(pc)].result)
    /\ stages' = Append(stages, <<ClassAt(pc), exec[ClassAt(pc)].result>>)
    /\ UNCHANGED <<optVars, projectName, target, answers, exec, checks, printed, thrown,
                   fsDone, exitCode, packages>>

NextInstall ==
    \/ SpawnChild
    \/ Tick
    \/ TimeoutFires
    \/ ChildCloses
    \/ ChildError
    \/ AwaitResult

SpecInstall == InitInstall /\ [][NextInstall]_vars

-----------------------------------------------------------------------------
(* Name and path validation: src/utils/validation.ts *)

UpperChars == {"A", "M"}

\* String.prototype.toLowerCase on one character.
LowerChar(c) == CASE c = "A" -> "a" [] c = "M" -> "m" [] OTHER -> c

toLowerCase(name) == [i \in DOMAIN name |-> LowerChar(name[i])]

\* [a-z0-9-], over the characters the model uses.
SlugChars == {"a", "d", "e", "i", "m", "o", "p", "y", "-"}

\* Characters encodeURIComponent leaves unchanged.
UrlSafeChars == SlugChars \cup UpperChars \cup {".", "_", "!"}

\* /[~'!()*]/
SpecialChars == {"!"}

MaxNameLength == 214

\* encodeURIComponent(s) === s
UrlSafe(s) == \A i \in DOMAIN s : s[i] \in UrlSafeChars

\* The scoped form @user/package, /^(?:@([^/]+?)[/])?([^/]+?)$/, with user and
\* package both left unchanged by encodeURIComponent.
ScopedName(name) ==
    /\ Len(name) >= 4
    /\ name[1] = "@"
    /\ \E i \in 3..(Len(name) - 1) :
          /\ name[i] = "/"
          /\ UrlSafe(SubSeq(name, 2, i - 1))
          /\ UrlSafe(SubSeq(name, i + 1, Len(name)))

\* validate-npm-package-name, as validateProjectName calls it.  The blacklist
\* and core-module checks cannot apply to the names the model draws.
\* A name that starts with a hyphen is accepted, as by the releases of the
\* library that have no rule for it; a scoped name is accepted by all of them.
validateNpmPackageName(name) ==
    LET n  == Len(name)
        e1 == PushIf(n = 0, <<>>, "name length must be greater than zero")
        e2 == PushIf(n > 0 /\ name[1] = ".", e1, "name cannot start with a period")
        e3 == PushIf(n > 0 /\ name[1] = "_", e2, "name cannot start with an underscore")
        e4 == PushIf(n > 0 /\ (name[1] = " " \/ name[n] = " "), e3,
                     "name cannot contain leading or trailing spaces")
        w1 == PushIf(n > MaxNameLength, <<>>,
                     "name can no longer contain more than 214 characters")
        w2 == PushIf(toLowerCase(name) # name, w1,
                     "name can no longer contain capital letters")
        w3 == PushIf(\E i \in DOMAIN name : name[i] \in SpecialChars, w2,
                     "name can no longer contain special characters")
        e5 == PushIf(~UrlSafe(name) /\ ~ScopedName(name), e4,
                     "name can only contain URL-friendly characters")
    IN  [validForNewPackages |-> e5 = <<>> /\ w3 = <<>>, errors |-> e5, warnings |-> w3]

validateProjectName(name) ==
    IF name = <<>>
    THEN [valid |-> FALSE, errors |-> <<"Project name is required">>, warnings |-> <<>>]
    ELSE LET npm == validateNpmPackageName(name)
             e1  == IF ~npm.validForNewPackages
                    THEN <<"Project name must be a valid npm package name">> \o npm.errors
                    ELSE <<>>
             e2  == PushIf(Len(name) > MaxNameLength, e1,
                           "Project name must be less than 214 characters")
             w   == PushIf(name # toLowerCase(name), npm.warnings,
                           "Project name should be lowercase")
         IN  [valid |-> npm.validForNewPackages /\ ~(Len(name) > MaxNameLength),
              errors |-> e2, warnings |-> w]

\* .replace(/\s+/g, "-"): each run of spaces becomes one hyphen.
RECURSIVE spacesToHyphen(_)
spacesToHyphen(s) ==
    IF s = <<>> THEN <<>>
    ELSE IF Head(s) = " "
         THEN IF Len(s) > 1 /\ s[2] = " " THEN spacesToHyphen(Tail(s))
              ELSE <<"-">> \o spacesToHyphen(Tail(s))
         ELSE <<Head(s)>> \o spacesToHyphen(Tail(s))

\* .replace(/-+/g, "-")
RECURSIVE collapseHyphens(_)
collapseHyphens(s) ==
    IF s = <<>> THEN <<>>
    ELSE IF Head(s) = "-" /\ Len(s) > 1 /\ s[2] = "-" THEN collapseHyphens(Tail(s))
         ELSE <<Head(s)>> \o collapseHyphens(Tail(s))

\* .replace(/^-|-$/g, "")
trimHyphen(s) ==
    LET a == IF s # <<>> /\ Head(s) = "-" THEN Tail(s) ELSE s
    IN  IF a # <<>> /\ a[Len(a)] = "-" THEN SubSeq(a, 1, Len(a) - 1) ELSE a

sanitizeProjectName(name) ==
    trimHyphen(collapseHyphens(
        SelectSeq(spacesToHyphen(toLowerCase(name)), LAMBDA c : c \in SlugChars)))

\* A path check that does not test the parent directory.
validateProjectPathNoParentCheck(t) ==
    [valid |-> t.state # "file" /\ t.readable,
     errors |-> PushIf(t.state = "file" \/ ~t.readable, <<>>, "Cannot use project path"),
     warnings |-> PushIf(t.state = "nonEmptyDir" /\ t.readable, <<>>,
                         "Directory is not empty. Files may be overwritten")]

\* t.state: what is at the project path; t.readable: whether readdirSync can
\* list an existing directory there (it throws otherwise, into the outer
\* catch); t.parentWritable: whether accessSync(parentDir, W_OK) returns.
validateProjectPath(t) ==
    IF t.state = "file"
    THEN [valid |-> FALSE, errors |-> <<"A file with this name already exists">>,
          warnings |-> <<>>]
    ELSE IF t.state \in {"emptyDir", "nonEmptyDir"} /\ ~t.readable
    THEN [valid |-> FALSE, errors |-> <<"Cannot access project path">>,
          warnings |-> <<>>]
    ELSE [valid |-> t.parentWritable,
          errors |-> PushIf(~t.parentWritable, <<>>, "Parent directory is not writable"),
          warnings |-> PushIf(t.state = "nonEmptyDir", <<>>,
                              "Directory is not empty. Files may be overwritten")]

-----------------------------------------------------------------------------
(* Spec: one run of createProject, src/commands/create.ts *)

\* Bounds and inputs of the run

\* The largest number of command-line flags of a run.
MaxRunFlags == 2

\* The flags the runs are given: the pipeline-control flags, and flags that
\* make validateOptions fail or warn.
RunValuesOf(k) ==
    CASE k = "view" -> {"ejs", "jade"}
      [] k = "css" -> {"tailwind"}
      [] k = "git" -> {FALSE}
      [] OTHER -> {TRUE}

RunKeys ==
    {"dryRun", "skipInstall", "skipGit", "git", "view", "css", "noView",
     "api", "fullstack", "typescript", "javascript"}

RECURSIVE RunBundles(_)
RunBundles(n) ==
    IF n = 0 THEN {EmptyOptions}
    ELSE LET B == RunBundles(n - 1) IN
         B \cup UNION { UNION { { Merge(b, [x \in {k} |-> v]) : v \in RunValuesOf(k) }
                                : k \in RunKeys \ DOMAIN b }
                        : b \in B }

\* The configuration files of the runs: none, or one with a single default.
RunConfigs ==
    {NoConfig} \cup
    { ConfigWith([x \in {k} |-> v], "") :
        k \in {"skipInstall", "skipGit", "dryRun"}, v \in {TRUE} } \cup
    { ConfigWith([view |-> "jade"], "") }

\* "my-app", "My-App", "My App", "-", "@_/_", and no name at all.
RunNames ==
    { <<>>,
      <<"m", "y", "-", "a", "p", "p">>,
      <<"M", "y", "-", "A", "p", "p">>,
      <<"M", "y", " ", "A", "p", "p">>,
      <<"-">>,
      <<"@", "_", "/", "_">> }

Targets ==
    { t \in [state : {"missing", "emptyDir", "nonEmptyDir", "file"},
             parentWritable : BOOLEAN, readable : BOOLEAN] :
        ~t.readable => t.state \in {"emptyDir", "nonEmptyDir"} }

ValidationKinds ==
    {"Project name is required", "Invalid project name", "Invalid project path",
     "Invalid options"}

CheckNames == {"name", "path", "options"}

Init ==
    /\ options \in RunBundles(MaxRunFlags)
    /\ presetOrder = <<>>
    /\ config \in RunConfigs
    /\ env = CleanEnv
    /\ merged = EmptyOptions
    /\ validation = NoValidation
    /\ resolved = Unresolved
    /\ projectName \in RunNames
    /\ target \in Targets
    /\ checks = EmptyOptions
    /\ printed = <<>>
    /\ thrown = NoError
    /\ fsDone = {}
    /\ stages = <<>>
    /\ exitCode = -1
    /\ packages = NoPackages
    /\ exec = NoExec
    /\ answers = NoAnswers
    /\ pc = "validateName"

Record(check, result) == Merge(checks, [x \in {check} |-> result])

Throw(kind, errors) == [kind |-> kind, errors |-> errors]

\* A check whose fatal errors are ignored: the run goes on to `next`.
NextAfterIgnoringErrors(v, next) == next

\* if (!result.valid) { throw ... }: where the run continues after check result v.
NextAfter(v, next) == IF v.valid THEN next ELSE "catch"

\* Step 1, first half: the name is required and must pass validateProjectName.
ValidateNameStep ==
    /\ pc = "validateName"
    /\ IF projectName = <<>>
       THEN /\ thrown' = Throw("Project name is required", <<>>)
            /\ pc' = "catch"
            /\ UNCHANGED <<checks, printed>>
       ELSE LET v == validateProjectName(projectName) IN
            /\ checks' = Record("name", v)
            /\ pc' = NextAfter(v, "validatePath")
            /\ IF ~v.valid
               THEN /\ thrown' = Throw("Invalid project name", v.errors)
                    /\ UNCHANGED printed
               ELSE /\ printed' = printed \o v.warnings
                    /\ UNCHANGED thrown
    /\ UNCHANGED <<optVars, projectName, target, answers, exec, packages, fsDone, stages, exitCode>>

\* Step 1, second half: the sanitized name gives the path, which must pass
\* validateProjectPath.
ValidatePathStep ==
    /\ pc = "validatePath"
    /\ LET v == validateProjectPath(target) IN
       /\ checks' = Record("path", v)
       /\ pc' = NextAfter(v, "validateOptions")
       /\ IF ~v.valid
          THEN /\ thrown' = Throw("Invalid project path", v.errors)
               /\ UNCHANGED printed
          ELSE /\ printed' = printed \o v.warnings
               /\ UNCHANGED thrown
    /\ UNCHANGED <<optVars, projectName, target, answers, exec, packages, fsDone, stages, exitCode>>

\* Step 2: merge the configuration defaults and validate the merged options.
ValidateOptionsStep ==
    /\ pc = "validateOptions"
    /\ merged' = mergeWithConfig(options, config)
    /\ validation' = validateOptions(merged')
    /\ checks' = Record("options", validation')
    /\ pc' = NextAfter(validation', "resolve")
    /\ IF ~validation'.valid
       THEN /\ thrown' = Throw("Invalid options", validation'.errors)
            /\ UNCHANGED printed
       ELSE /\ printed' = printed \o validation'.warnings
            /\ UNCHANGED thrown
    /\ UNCHANGED <<options, presetOrder, config, env, resolved, projectName, target, answers, exec, packages,
                   fsDone, stages, exitCode>>

\* A run that starts the install stage right after option resolution.
ContinueOutOfOrder(stage) ==
    CASE stage = "resolve" -> "install"
      [] stage = "materialize" -> "install"
      [] stage = "installRuntime" -> "installDev"
      [] stage = "git" -> "report"
      [] OTHER -> "git"

\* The statement order of createProject after validation: the stage whose
\* awaited call comes next when `stage` has completed without throwing.
Continue(stage) ==
    CASE stage = "resolve" -> "materialize"
      [] stage = "materialize" -> "install"
      [] stage = "installRuntime" -> "installDev"
      [] stage = "git" -> "report"
      [] OTHER -> "git"

\* A materializer that rewrites the project path of the record it is given.
resolvedOptionsRewritten(stage, o) ==
    IF stage = "materialize" THEN Merge(o, [projectPath |-> <<"cwd">>]) ELSE o

\* The ResolvedOptions record after a collaborator (dry-run display, project
\* summary, materializer, installer, git initializer, completion report) has
\* been given it: each of them reads its fields and assigns none.
resolvedOptionsAfter(stage, o) == o

\* A run that does not look at the dry-run flag.
isDryRunIgnored(opts) == FALSE

\* if (options.dryRun): the flag of the options object createProject is
\* called with.
isDryRun(opts) == Truthy(opts, "dryRun")

\* resolveOptions, then the dry run (which returns) or the project summary.
ResolveStep ==
    /\ pc = "resolve"
    /\ resolved' = resolvedOptionsAfter(
                       IF isDryRun(options) THEN "dryRun" ELSE "summary",
                       resolveOptions(sanitizeProjectName(projectName),
                                      PathOf(sanitizeProjectName(projectName)), merged))
    /\ IF isDryRun(options)
       THEN /\ stages' = stages \o <<<<"resolve", "ok">>, <<"dryRun", "ok">>>>
            /\ pc' = "exited"
            /\ exitCode' = 0
       ELSE /\ stages' = Append(stages, <<"resolve", "ok">>)
            /\ pc' = Continue("resolve")
            /\ UNCHANGED exitCode
    /\ UNCHANGED <<options, presetOrder, config, env, merged, validation, projectName,
                   target, answers, exec, packages, checks, printed, thrown, fsDone>>

MaterializeOutcomes == {"ok", "ensureDirFails", "generateFails"}

\* What the try block of step 3 leaves behind: fs.ensureDir creates the
\* project directory, generateProject writes the files one after another and
\* stops at the first failure without removing what it wrote.
materializeWrites(outcome) ==
    CASE outcome = "ok" -> {"projectDir", "projectFiles"}
      [] outcome = "generateFails" -> {"projectDir", "partialFiles"}
      [] OTHER -> {}

\* A step 3 whose failure is logged and not rethrown.
materializeProjectSwallows(outcome) ==
    [threw |-> FALSE, writes |-> materializeWrites(outcome)]

\* The try/catch of step 3: generateProject logs and rethrows, and the catch
\* of createProject fails the spinner and rethrows.
materializeProject(outcome) ==
    [threw |-> outcome # "ok", writes |-> materializeWrites(outcome)]

\* Step 3: fs.ensureDir(projectPath) and generateProject(resolvedOptions).
MaterializeStep ==
    /\ pc = "materialize"
    /\ \E outcome \in MaterializeOutcomes :
          LET m == materializeProject(outcome) IN
          /\ stages' = Append(stages, <<"materialize", outcome>>)
          /\ fsDone' = fsDone \cup m.writes
          /\ IF m.threw
             THEN pc' = "catch" /\ thrown' = Throw("materialize", <<outcome>>)
             ELSE pc' = Continue("materialize") /\ UNCHANGED thrown
    /\ resolved' = resolvedOptionsAfter("materialize", resolved)
    /\ UNCHANGED <<inVars, projectName, target, answers, exec, packages, checks, printed, exitCode>>

InstallOutcomes == {"ok", "exitNonZero", "spawnError", "timeout"}

\* Step 4: unless options.skipInstall, installDependencies computes both
\* dependency lists and installs the runtime packages; a failed subprocess
\* makes installPackages throw.
InstallRuntimeStep ==
    /\ pc = "install"
    /\ IF Truthy(options, "skipInstall")
       THEN /\ stages' = Append(stages, <<"install", "skipped">>)
            /\ pc' = Continue("install")
            /\ UNCHANGED <<thrown, fsDone, packages>>
       ELSE \E outcome \in InstallOutcomes :
            /\ packages' = [dependencies |-> getRequiredDependencies(resolved),
                            devDependencies |-> getRequiredDevDependencies(resolved)]
            /\ stages' = Append(stages, <<"installRuntime", outcome>>)
            /\ IF outcome = "ok"
               THEN /\ pc' = Continue("installRuntime")
                    /\ fsDone' = fsDone \cup {"node_modules"}
                    /\ UNCHANGED thrown
               ELSE /\ pc' = "catch"
                    /\ thrown' = Throw("install", <<outcome>>)
                    /\ UNCHANGED fsDone
    /\ resolved' = resolvedOptionsAfter("install", resolved)
    /\ UNCHANGED <<inVars, projectName, target, answers, exec, checks, printed, exitCode>>

\* Step 4, continued: the development packages.
InstallDevStep ==
    /\ pc = "installDev"
    /\ \E outcome \in InstallOutcomes :
          /\ stages' = Append(stages, <<"installDev", outcome>>)
          /\ IF outcome = "ok"
             THEN pc' = Continue("installDev") /\ UNCHANGED thrown
             ELSE pc' = "catch" /\ thrown' = Throw("install", <<outcome>>)
    /\ resolved' = resolvedOptionsAfter("install", resolved)
    /\ UNCHANGED <<inVars, projectName, target, answers, exec, packages, checks, printed, fsDone, exitCode>>

GitOutcomes ==
    {"unavailable", "alreadyRepository", "initFails", "gitignoreFails",
     "addFails", "commitFails", "noIdentity", "nothingToCommit", "ok"}

\* What initializeGit meets on the machine: whether `git --version` runs,
\* whether .git exists already, and how `git init`, the write of .gitignore
\* and the steps of createInitialCommit end.
GitWorlds ==
    [available : BOOLEAN, repository : BOOLEAN, init : {"ok", "fails"},
     gitignore : {"ok", "fails"},
     commit : {"ok", "nothingToCommit", "noIdentity", "addFails", "commitFails"}]

\* createInitialCommit: `git add .`, then `git diff --cached --exit-code`
\* (which returns when nothing is staged), then `git commit`.  A commit that
\* fails on a missing user.name/user.email is logged; a failing `git add` or
\* any other commit failure is rethrown.
createInitialCommit(w) ==
    [threw |-> w.commit \in {"addFails", "commitFails"},
     outcome |-> IF w.commit = "ok" THEN "ok" ELSE w.commit,
     commands |-> CASE w.commit = "addFails" -> <<"git add">>
                    [] w.commit = "nothingToCommit" -> <<"git add", "git diff">>
                    [] OTHER -> <<"git add", "git diff", "git commit">>]

\* A try block that commits before it writes .gitignore.
tryInitializeGitCommitFirst(w) ==
    LET c == createInitialCommit(w) IN
    [threw |-> c.threw, outcome |-> c.outcome,
     writes |-> {"gitRepository", "gitignore"},
     commands |-> <<"git --version", "git init">> \o c.commands
                  \o <<"write .gitignore">>]

\* The try block of initializeGit: whether it threw, how far it came, what it
\* wrote below the project directory, and the commands it ran, in order.
tryInitializeGit(w) ==
    IF ~w.available
    THEN [threw |-> FALSE, outcome |-> "unavailable", writes |-> {},
          commands |-> <<"git --version">>]
    ELSE IF w.repository
    THEN [threw |-> FALSE, outcome |-> "alreadyRepository", writes |-> {},
          commands |-> <<"git --version">>]
    ELSE IF w.init = "fails"
    THEN [threw |-> TRUE, outcome |-> "initFails", writes |-> {},
          commands |-> <<"git --version", "git init">>]
    ELSE IF w.gitignore = "fails"
    THEN [threw |-> TRUE, outcome |-> "gitignoreFails", writes |-> {"gitRepository"},
          commands |-> <<"git --version", "git init", "write .gitignore">>]
    ELSE LET c == createInitialCommit(w) IN
         [threw |-> c.threw, outcome |-> c.outcome,
          writes |-> {"gitRepository", "gitignore"},
          commands |-> <<"git --version", "git init", "write .gitignore">>
                       \o c.commands
                       \o (IF c.threw THEN <<>> ELSE <<"git config">>)]

\* initializeGit without its catch block: a failure rejects the promise.
initializeGitRethrows(w) ==
    LET t == tryInitializeGit(w) IN
    [fulfilled |-> ~t.threw, outcome |-> t.outcome, writes |-> t.writes,
     commands |-> t.commands]

\* initializeGit: the catch block logs the failure and does not rethrow.
initializeGit(w) ==
    LET t == tryInitializeGit(w) IN
    [fulfilled |-> TRUE, outcome |-> t.outcome, writes |-> t.writes,
     commands |-> t.commands]

\* Step 5: unless options.skipGit or options.git === false, await
\* initializeGit(projectPath); a rejection would reach the catch of the run.
GitStep ==
    /\ pc = "git"
    /\ IF Truthy(options, "skipGit") \/ (Has(options, "git") /\ options["git"] = FALSE)
       THEN /\ stages' = Append(stages, <<"git", "skipped">>)
            /\ pc' = Continue("git")
            /\ UNCHANGED <<fsDone, thrown, exec>>
       ELSE \E w \in GitWorlds :
            LET r == initializeGit(w) IN
            /\ stages' = Append(stages, <<"git", r.outcome>>)
            /\ exec' = [exec EXCEPT !.git = r.commands]
            /\ fsDone' = fsDone \cup r.writes
            /\ IF r.fulfilled
               THEN pc' = Continue("git") /\ UNCHANGED thrown
               ELSE pc' = "catch" /\ thrown' = Throw("git", <<r.outcome>>)
    /\ resolved' = resolvedOptionsAfter("git", resolved)
    /\ UNCHANGED <<inVars, projectName, target, answers, packages, checks, printed, exitCode>>

\* Step 6: showCompletionMessage; createProject returns and the process ends.
ReportStep ==
    /\ pc = "report"
    /\ stages' = Append(stages, <<"report", "ok">>)
    /\ pc' = "exited"
    /\ exitCode' = 0
    /\ resolved' = resolvedOptionsAfter("report", resolved)
    /\ UNCHANGED <<inVars, projectName, target, answers, exec, packages, checks, printed, thrown, fsDone>>

\* catch (error) { logError(error); process.exit(1); }
CatchStep ==
    /\ pc = "catch"
    /\ pc' = "exited"
    /\ exitCode' = 1
    /\ UNCHANGED <<optVars, projectName, target, answers, exec, packages, checks, printed, thrown, fsDone,
                   stages>>

Next ==
    \/ ValidateNameStep
    \/ ValidatePathStep
    \/ ValidateOptionsStep
    \/ ResolveStep
    \/ MaterializeStep
    \/ InstallRuntimeStep
    \/ InstallDevStep
    \/ GitStep
    \/ ReportStep
    \/ CatchStep

Spec == Init /\ [][Next]_vars

-----------------------------------------------------------------------------
(* SpecInit: the interactive flow, src/commands/init.ts *)

\* The largest number of boxes ticked in the feature checkbox of the custom
\* configuration.
MaxPicks == 1

Languages == {"typescript", "javascript"}

ProjectTypes == {"custom", "api", "fullstack", "microservice", "startup", "light", "prod"}

InitViewChoices == {"none", "ejs", "pug", "hbs", "mustache"}

InitCssChoices == {"none", "sass", "less", "stylus"}

InitDatabaseChoices == {"none", "mongodb", "postgres"}

InitFeatureChoices ==
    {"swagger", "docker", "redis", "test", "elk", "auth", "cors", "helmet",
     "rateLimit", "validation"}

AdditionalChoices == {"git", "skipInstall", "verbose"}

\* The options with every key of `keys` set to true.
AllTrue(keys) == [k \in keys |-> TRUE]

\* applyPreset of init.ts: the base options spread first, then the entries of
\* the preset.
applyPreset(preset, baseOptions) ==
    CASE preset = "api" ->
            Merge(baseOptions, AllTrue({"typescript", "cors", "helmet", "validation", "test"}))
      [] preset = "fullstack" ->
            Merge(Merge(baseOptions, [view |-> "ejs", css |-> "sass"]),
                  AllTrue({"auth", "mongodb", "test"}))
      [] preset = "microservice" ->
            Merge(baseOptions, AllTrue({"typescript", "docker", "redis", "test", "elk"}))
      [] preset = "startup" ->
            Merge(baseOptions,
                  AllTrue({"typescript", "mongodb", "auth", "swagger", "docker", "test"}))
      [] preset = "light" -> Merge(baseOptions, AllTrue({"cors", "helmet"}))
      [] preset = "prod" ->
            Merge(baseOptions,
                  AllTrue({"typescript", "docker", "swagger", "test", "elk", "cors",
                           "helmet", "rateLimit", "validation"}))
      [] OTHER -> baseOptions

\* The names the project-name prompt accepts: /^[a-z0-9-_]+$/ on the trimmed
\* input.
InitNames ==
    { n \in RunNames : n # <<>> /\ \A i \in DOMAIN n : n[i] \in SlugChars \cup {"_"} }

InitInit == OptIdle /\ RunIdle /\ pc = "askName"

AnswerName ==
    /\ pc = "askName"
    /\ projectName' \in InitNames
    /\ pc' = "askLanguage"
    /\ UNCHANGED <<optVars, target, checks, printed, thrown, fsDone, stages,
                   exitCode, packages, exec, answers>>

AnswerLanguage ==
    /\ pc = "askLanguage"
    /\ \E l \in Languages : answers' = [answers EXCEPT !.language = l]
    /\ pc' = "askType"
    /\ UNCHANGED <<optVars, projectName, target, checks, printed, thrown, fsDone,
                   stages, exitCode, packages, exec>>

\* The project type is chosen; options starts as {typescript: language ===
\* "typescript"} and a preset other than custom is applied to it.
AnswerProjectType ==
    /\ pc = "askType"
    /\ \E t \in ProjectTypes :
          LET base == [typescript |-> answers.language = "typescript"] IN
          /\ answers' = [answers EXCEPT !.projectType = t]
          /\ options' = IF t # "custom" THEN applyPreset(t, base) ELSE base
          /\ pc' = IF t # "custom" THEN "askAdditional" ELSE "customView"
    /\ UNCHANGED <<presetOrder, config, env, merged, validation, resolved,
                   projectName, target, checks, printed, thrown, fsDone, stages,
                   exitCode, packages, exec>>

\* customConfiguration: the view engine and, with one, the CSS preprocessor.
CustomViewAndCss ==
    /\ pc = "customView"
    /\ \E v \in InitViewChoices : \E c \in InitCssChoices :
          /\ v = "none" => c = "none"
          /\ options' = Merge(options,
                              Merge(IF v # "none" THEN [view |-> v] ELSE EmptyOptions,
                                    IF c # "none" THEN [css |-> c] ELSE EmptyOptions))
    /\ pc' = "customDatabase"
    /\ UNCHANGED <<presetOrder, config, env, merged, validation, resolved,
                   projectName, target, checks, printed, thrown, fsDone, stages,
                   exitCode, packages, exec, answers>>

\* customConfiguration: the database and the feature checkbox.
CustomDatabaseAndFeatures ==
    /\ pc = "customDatabase"
    /\ \E d \in InitDatabaseChoices : \E F \in SUBSET InitFeatureChoices :
          /\ Cardinality(F) <= MaxPicks
          /\ options' = Merge(options, AllTrue(F \cup ({d} \ {"none"})))
    /\ pc' = "askAdditional"
    /\ UNCHANGED <<presetOrder, config, env, merged, validation, resolved,
                   projectName, target, checks, printed, thrown, fsDone, stages,
                   exitCode, packages, exec, answers>>

\* The additional-options checkbox sets git, skipInstall, skipGit, verbose.
AnswerAdditional ==
    /\ pc = "askAdditional"
    /\ \E A \in SUBSET AdditionalChoices :
          /\ answers' = [answers EXCEPT !.additional = A]
          /\ options' = Merge(options,
                              [git |-> "git" \in A, skipInstall |-> "skipInstall" \in A,
                               skipGit |-> "git" \notin A, verbose |-> "verbose" \in A])
    /\ pc' = "summary"
    /\ UNCHANGED <<presetOrder, config, env, merged, validation, resolved,
                   projectName, target, checks, printed, thrown, fsDone, stages,
                   exitCode, packages, exec>>

\* The configuration summary: the language line is printed from the language
\* answer, the type line from the project type.
ShowSummary ==
    /\ pc = "summary"
    /\ printed' = <<IF answers.language = "typescript" THEN "Language: TypeScript"
                    ELSE "Language: JavaScript",
                    answers.projectType>>
    /\ pc' = "confirm"
    /\ UNCHANGED <<optVars, projectName, target, checks, thrown, fsDone, stages,
                   exitCode, packages, exec, answers>>

\* The confirmation; with yes createProject(projectName, options) is called,
\* which checks the name, then merges, validates and resolves the options.
ConfirmAndCreate ==
    /\ pc = "confirm"
    /\ \E proceed \in BOOLEAN :
          LET v == validateProjectName(projectName)
              m == mergeWithConfig(options, config)
              o == validateOptions(m)
          IN
          /\ answers' = [answers EXCEPT !.proceed = proceed]
          /\ IF ~proceed
             THEN /\ pc' = "initCancelled"
                  /\ UNCHANGED <<merged, validation, resolved, checks, thrown>>
             ELSE IF ~v.valid
             THEN /\ checks' = Record("name", v)
                  /\ thrown' = Throw("Invalid project name", v.errors)
                  /\ pc' = "initFailed"
                  /\ UNCHANGED <<merged, validation, resolved>>
             ELSE /\ checks' = Record("name", v)
                  /\ merged' = m
                  /\ validation' = o
                  /\ IF o.valid
                     THEN /\ resolved' = resolveOptions(
                                             sanitizeProjectName(projectName),
                                             PathOf(sanitizeProjectName(projectName)), m)
                          /\ pc' = "initCreated"
                          /\ UNCHANGED thrown
                     ELSE /\ thrown' = Throw("Invalid options", o.errors)
                          /\ pc' = "initFailed"
                          /\ UNCHANGED resolved
    /\ UNCHANGED <<options, presetOrder, config, env, projectName, target, printed,
                   fsDone, stages, exitCode, packages, exec>>

NextInit ==
    \/ AnswerName
    \/ AnswerLanguage
    \/ AnswerProjectType
    \/ CustomViewAndCss
    \/ CustomDatabaseAndFeatures
    \/ AnswerAdditional
    \/ ShowSummary
    \/ ConfirmAndCreate

SpecInit == InitInit /\ [][NextInit]_vars


-----------------------------------------------------------------------------
(* Properties of option resolution, checked under SpecResolve *)

\* The raw options object is exactly the record `rec`.
RawIs(rec) ==
    /\ DOMAIN options = DOMAIN rec
    /\ \A k \in DOMAIN rec : options[k] = rec[k]

\* The bundle of a named preset, as applyPresets spreads it.
BundleOf(name) ==
    IF name = "all" THEN getAllPresetOptions ELSE PRESET_DEFINITIONS[name]

\* The positions, in the fixed priority order, of the presets that are active
\* in raw object `o` and whose bundle defines key k.
Definers(o, k) ==
    {i \in DOMAIN PresetPriority :
        Truthy(o, PresetPriority[i]) /\ k \in DOMAIN BundleOf(PresetPriority[i])}

Last(S) == CHOOSE i \in S : \A j \in S : j <= i

SixTsPresets == {"api", "microservice", "startup", "prod", "min", "light"}

\* C1: resolving {prod:true, typescript:false} yields isTypescript === false:
\* the explicit typescript flag overrides the language the prod preset implies.
C1_ExplicitFalseBeatsProd ==
    (pc = "resolved" /\ RawIs([prod |-> TRUE, typescript |-> FALSE]))
        => resolved["isTypescript"] = FALSE

\* C2: after applyPresets every option key has the raw value if the raw object
\* has the key, otherwise the value of the last active preset (in the order
\* light, api, fullstack, microservice, startup, min, prod, all) whose bundle
\* defines it, otherwise it is unset; the order in which the preset flags were
\* supplied (presetOrder) plays no part.
C2_PresetPrecedence ==
    pc = "resolved" =>
        \A k \in OptionKeys :
            IF k \in DOMAIN options
            THEN Has(resolved, k) /\ resolved[k] = options[k]
            ELSE IF Definers(options, k) # {}
            THEN /\ Has(resolved, k)
                 /\ resolved[k] =
                        BundleOf(PresetPriority[Last(Definers(options, k))])[k]
            ELSE ~Has(resolved, k)

\* C2 witness: two presets supplied in the reverse of their priority order and
\* an explicit flag that contradicts both have been resolved.
C2_Witness ==
    /\ pc = "resolved"
    /\ presetOrder = <<"prod", "light">>
    /\ Has(options, "typescript") /\ options["typescript"] = FALSE
    /\ resolved["typescript"] = FALSE
    /\ resolved["docker"] = TRUE

\* C4: whenever the javascript flag is set and the typescript flag is not given
\* explicitly, resolveOptions yields isTypescript === false, whichever presets
\* are active.
C4_JavascriptFlagWins ==
    (pc = "resolved" /\ Truthy(options, "javascript") /\ ~Has(options, "typescript"))
        => resolved["isTypescript"] = FALSE

\* C5 (as stated): with the javascript flag not set, isTypescript is true if and
\* only if typescript is explicitly set or one of api, microservice, startup,
\* prod, min, light is active; {fullstack:true} alone gives JavaScript and
\* view "ejs".
C5_DefaultRuleOriginal ==
    pc = "resolved" =>
        /\ ~Truthy(options, "javascript") =>
              (resolved["isTypescript"] = TRUE <=>
                  \/ Truthy(options, "typescript")
                  \/ \E p \in SixTsPresets : Truthy(options, p))
        /\ RawIs([fullstack |-> TRUE]) =>
              resolved["isTypescript"] = FALSE /\ resolved["view"] = "ejs"

\* C5 (amended): with the javascript flag not set, isTypescript is true if and
\* only if typescript is explicitly true, or one of api, microservice, startup,
\* prod, min, light is active, or the all preset is active and typescript is not
\* given explicitly; {fullstack:true} alone gives JavaScript and view "ejs".
C5_DefaultRule ==
    pc = "resolved" =>
        /\ ~Truthy(options, "javascript") =>
              (resolved["isTypescript"] = TRUE <=>
                  \/ Truthy(options, "typescript")
                  \/ \E p \in SixTsPresets : Truthy(options, p)
                  \/ Truthy(options, "all") /\ ~Has(options, "typescript"))
        /\ RawIs([fullstack |-> TRUE]) =>
              resolved["isTypescript"] = FALSE /\ resolved["view"] = "ejs"

\* C5 witness: the light preset with typescript explicitly false has been
\* resolved to TypeScript.
C5_Witness ==
    /\ pc = "resolved"
    /\ RawIs([light |-> TRUE, typescript |-> FALSE])
    /\ resolved["isTypescript"] = TRUE

\* C6: resolving {api:true} yields isTypescript === true and a features list
\* that contains TypeScript, CORS, Helmet, Joi Validation and Jest Testing and
\* no view-engine label.
C6_ApiScenario ==
    (pc = "resolved" /\ RawIs([api |-> TRUE])) =>
        /\ resolved["isTypescript"] = TRUE
        /\ {"TypeScript", "CORS", "Helmet", "Joi Validation", "Jest Testing"}
              \subseteq Range(resolved["features"])
        /\ Range(resolved["features"]) \cap ViewLabels = {}

\* C6 witness: {api:true} has been resolved, with noView taken from the preset.
C6_Witness ==
    /\ pc = "resolved"
    /\ RawIs([api |-> TRUE])
    /\ resolved["noView"] = TRUE

\* C7: a record resolved from options that validateOptions accepts never has
\* noView true together with a set view engine.
C7_NoViewExcludesView ==
    (pc = "resolved" /\ validation.valid)
        => ~(Truthy(resolved, "noView") /\ Truthy(resolved, "view"))


-----------------------------------------------------------------------------
(* Properties of the option sources, checked under SpecConfig *)

\* C3: config-file defaults < preset bundle < explicit flags: an explicit flag
\* keeps its value, and a key that the configuration defaults define, that the
\* bundle of an active preset defines and that is no explicit flag resolves to
\* the preset's value.
C3_SourcePrecedence ==
    pc = "cfgResolved" =>
        \A k \in OptionKeys :
            /\ k \in DOMAIN options => resolved[k] = options[k]
            /\ ( /\ k \notin DOMAIN options
                 /\ k \in DOMAIN config.defaults
                 /\ Definers(options, k) # {} )
               => resolved[k] = BundleOf(PresetPriority[Last(Definers(options, k))])[k]


-----------------------------------------------------------------------------
(* Properties of the createProject run, checked under Spec *)

\* What each validation check reports on the inputs of the run, executed or not.
ResultOf(check) ==
    CASE check = "name" -> validateProjectName(projectName)
      [] check = "path" -> validateProjectPath(target)
      [] OTHER -> validateOptions(mergeWithConfig(options, config))

FailingChecks == {c \in CheckNames : ~ResultOf(c).valid}

InstallFailed ==
    \E i \in DOMAIN stages :
        stages[i][1] \in {"installRuntime", "installDev"} /\ stages[i][2] # "ok"

\* C8: in a run where more than one check reports a fatal error, every check
\* is executed, the abort message lists the errors of all failing checks, and
\* every warning of every check is printed.
C8_NoShortCircuit ==
    (pc = "exited" /\ Cardinality(FailingChecks) > 1) =>
        /\ DOMAIN checks = CheckNames
        /\ \A c \in FailingChecks : Range(ResultOf(c).errors) \subseteq Range(thrown.errors)
        /\ \A c \in CheckNames : Range(ResultOf(c).warnings) \subseteq Range(printed)

\* C9: a run that ends in a fatal validation error has created or modified
\* nothing, and the first filesystem mutation happens only after the name, the
\* path and the options have all passed validation.
C9_NoMutationBeforeValidation ==
    /\ thrown.kind \in ValidationKinds => fsDone = {}
    /\ fsDone # {} =>
          /\ DOMAIN checks = CheckNames
          /\ \A c \in CheckNames : checks[c].valid

\* C9 witness: a run has ended with exit code 1 on invalid options, after the
\* name and path checks passed, and has written nothing.
C9_Witness ==
    /\ pc = "exited"
    /\ exitCode = 1
    /\ thrown.kind = "Invalid options"
    /\ DOMAIN checks = CheckNames
    /\ fsDone = {}

\* C10: a run whose install stage failed after a successful materialization
\* still goes on to git initialization and ends in success with exit code 0.
C10_InstallFailureRecoverable ==
    (pc = "exited" /\ InstallFailed) =>
        /\ exitCode = 0
        /\ \E i \in DOMAIN stages : stages[i][1] = "git"
        /\ \E i \in DOMAIN stages : stages[i] = <<"report", "ok">>

\* The git stage of the run was entered and initializeGit was called (the
\* stage was not skipped by skipGit or git: false).
GitCalled ==
    \E i \in DOMAIN stages : stages[i][1] = "git" /\ stages[i][2] # "skipped"

GitFailures == {"unavailable", "initFails", "gitignoreFails", "addFails",
                "commitFails", "noIdentity"}

\* C11: initializeGit never propagates a failure: whatever git does (absent,
\* init fails, .gitignore cannot be written, the commit fails, no user
\* identity), the call fulfils, nothing is thrown out of the git stage, and a
\* run that reached the git stage ends with the report and exit code 0.
C11_GitNeverFatal ==
    /\ \A w \in GitWorlds : initializeGit(w).fulfilled
    /\ GitCalled => thrown = NoError /\ pc # "catch"
    /\ (GitCalled /\ pc = "exited") =>
          exitCode = 0 /\ stages[Len(stages)] = <<"report", "ok">>

\* C11 witness: a run has ended in success although its git stage failed at
\* the initial commit after a successful install.
C11_Witness ==
    /\ pc = "exited"
    /\ exitCode = 0
    /\ \E i \in DOMAIN stages : stages[i] = <<"git", "commitFails">>
    /\ \E i \in DOMAIN stages : stages[i] = <<"installDev", "ok">>

\* The outcome of the materialization stage of the run, "" before it.
MaterializeOutcome ==
    IF \E i \in DOMAIN stages : stages[i][1] = "materialize"
    THEN (CHOOSE st \in Range(stages) : st[1] = "materialize")[2]
    ELSE ""

\* C12: a materialization failure is fatal: after it no install or git stage
\* is started, the run ends with exit code 1, and what was written before the
\* failure is still there when the run has ended.
C12_MaterializeFailureFatal ==
    MaterializeOutcome \in {"ensureDirFails", "generateFails"} =>
        /\ stages[Len(stages)][1] = "materialize"
        /\ thrown.kind = "materialize"
        /\ pc \in {"catch", "exited"}
        /\ pc = "exited" => exitCode = 1
        /\ fsDone = materializeWrites(MaterializeOutcome)

\* C12 witness: a run has ended after generateProject failed part-way, and the
\* partially written project directory is still in place.
C12_Witness ==
    /\ pc = "exited"
    /\ exitCode = 1
    /\ MaterializeOutcome = "generateFails"
    /\ "partialFiles" \in fsDone

\* The place of each stage, and of each position of the run, in the pipeline
\* validate -> resolve -> materialize -> install -> git -> report.
StageRank(stage) ==
    CASE stage \in {"validateName"} -> 1
      [] stage \in {"validatePath"} -> 2
      [] stage \in {"validateOptions"} -> 3
      [] stage \in {"resolve"} -> 4
      [] stage \in {"dryRun"} -> 5
      [] stage \in {"materialize"} -> 6
      [] stage \in {"install", "installRuntime"} -> 7
      [] stage \in {"installDev"} -> 8
      [] stage \in {"git"} -> 9
      [] stage \in {"report"} -> 10
      [] OTHER -> 11

\* A stage entry with this name and one of these outcomes comes before
\* position i of the stage log.
Before(i, names, outcomes) ==
    \E j \in 1..(i - 1) : stages[j][1] \in names /\ stages[j][2] \in outcomes

\* C13: the run is a strictly sequential pipeline: stages are entered in the
\* order validate, resolve, materialize, install, git, report, each at most
\* once; a stage is entered only when the one before it has completed; the
\* stage about to run comes after every stage already run; and the report is
\* the last stage.
C13_SequentialPipeline ==
    /\ \A i, j \in DOMAIN stages :
          i < j => StageRank(stages[i][1]) < StageRank(stages[j][1])
    /\ \A i \in DOMAIN stages :
          /\ stages[i][1] = "resolve" =>
                DOMAIN checks = CheckNames /\ \A c \in CheckNames : checks[c].valid
          /\ stages[i][1] = "materialize" =>
                Before(i, {"resolve"}, {"ok"}) /\ resolved # Unresolved
          /\ stages[i][1] \in {"install", "installRuntime"} =>
                Before(i, {"materialize"}, {"ok"})
          /\ stages[i][1] = "installDev" => Before(i, {"installRuntime"}, {"ok"})
          /\ stages[i][1] = "git" =>
                /\ stages[i - 1][1] \in {"install", "installRuntime", "installDev"}
                /\ stages[i - 1][2] \in {"ok", "skipped"}
          /\ stages[i][1] = "report" => stages[i - 1][1] = "git" /\ i = Len(stages)
    /\ pc \notin {"catch", "exited"} =>
          \A i \in DOMAIN stages : StageRank(stages[i][1]) < StageRank(pc)

\* C13 witness: a run has gone through all six stages and ended.
C13_Witness ==
    /\ pc = "exited"
    /\ stages = << <<"resolve", "ok">>, <<"materialize", "ok">>,
                   <<"installRuntime", "ok">>, <<"installDev", "ok">>,
                   <<"git", "ok">>, <<"report", "ok">> >>

\* Option k of the raw bundle is given and is not false, empty or absent.
Given(k) == Truthy(options, k)

GivenPresets == {p \in PresetKeys : Given(p)}

\* C16: validateOptions reports invalid exactly when the view engine is given
\* and unsupported, or the CSS engine is given and unsupported, or noView and
\* view are both given; typescript with javascript, mongodb with postgres,
\* and more than one active preset each add a warning and leave the result
\* valid.
C16_FatalAndWarningRules ==
    pc = "validated" =>
        /\ validation.valid = FALSE <=>
              \/ Given("view") /\ options["view"] \notin SUPPORTED_VIEW_ENGINES
              \/ Given("css") /\ options["css"] \notin SUPPORTED_CSS_ENGINES
              \/ Given("noView") /\ Given("view")
        /\ validation.valid = (validation.errors = <<>>)
        /\ (Given("typescript") /\ Given("javascript")) <=>
              "Both TypeScript and JavaScript flags specified" \in Range(validation.warnings)
        /\ (Given("mongodb") /\ Given("postgres")) <=>
              "Both MongoDB and PostgreSQL selected" \in Range(validation.warnings)
        /\ Cardinality(GivenPresets) > 1 <=>
              "Multiple presets specified" \in Range(validation.warnings)

\* C16 witness: a bundle with two active presets has been validated: valid,
\* with the one warning about multiple presets.
C16_Witness ==
    /\ pc = "validated"
    /\ Cardinality(GivenPresets) = 2
    /\ validation.valid
    /\ Len(validation.warnings) = 1

CssLabels ==
    {"CSS: less", "CSS: sass", "CSS: scss", "CSS: stylus", "CSS: compass",
     "CSS: tailwind", "CSS: ?"}

\* The fixed enumeration of the labels after the language, view and CSS.
FeatureEnumeration ==
    <<"MongoDB", "PostgreSQL", "Redis", "JWT Auth", "CORS", "Helmet",
      "Rate Limiting", "Joi Validation", "Swagger/OpenAPI", "Jest Testing",
      "Docker", "ELK Logging", "Git">>

\* The place of a label in the enumeration: language, view, CSS, then the rest.
LabelRank(label) ==
    IF label \in {"TypeScript", "JavaScript"} THEN 1
    ELSE IF label \in ViewLabels THEN 2
    ELSE IF label \in CssLabels THEN 3
    ELSE IF \E i \in DOMAIN FeatureEnumeration : FeatureEnumeration[i] = label
         THEN 3 + (CHOOSE i \in DOMAIN FeatureEnumeration : FeatureEnumeration[i] = label)
    ELSE 0

\* The option whose truth puts a label of the enumeration into the list.
OptionOf(label) ==
    CASE label = "MongoDB" -> "mongodb" [] label = "PostgreSQL" -> "postgres"
      [] label = "Redis" -> "redis" [] label = "JWT Auth" -> "auth"
      [] label = "CORS" -> "cors" [] label = "Helmet" -> "helmet"
      [] label = "Rate Limiting" -> "rateLimit"
      [] label = "Joi Validation" -> "validation"
      [] label = "Swagger/OpenAPI" -> "swagger" [] label = "Jest Testing" -> "test"
      [] label = "Docker" -> "docker" [] OTHER -> "elk"

\* C21: the features list of a resolved record starts with exactly one
\* language label, TypeScript exactly when isTypescript, and its labels follow
\* the fixed enumeration (view, CSS, MongoDB, ..., ELK Logging, Git) in
\* strictly increasing order, so each at most once; a label of the
\* enumeration is in the list exactly when its feature is active.
C21_FeaturesOrdered ==
    pc = "resolved" =>
        LET f == resolved["features"] IN
        /\ f # <<>>
        /\ f[1] = (IF resolved["isTypescript"] THEN "TypeScript" ELSE "JavaScript")
        /\ \A i \in DOMAIN f : LabelRank(f[i]) > 0
        /\ \A i, j \in DOMAIN f : i < j => LabelRank(f[i]) < LabelRank(f[j])
        /\ \A i \in 1..12 :
              FeatureEnumeration[i] \in Range(f) <=>
                 Truthy(resolved, OptionOf(FeatureEnumeration[i]))
        /\ "Git" \in Range(f) <=> ~(Has(resolved, "git") /\ resolved["git"] = FALSE)

\* C21 witness: a record with a view engine, a database, Docker and Git has
\* been resolved; its list has the five labels in enumeration order.
C21_Witness ==
    /\ pc = "resolved"
    /\ resolved["features"] = <<"JavaScript", "View: pug", "MongoDB", "Docker", "Git">>

\* The name check of the run has been executed.
NameChecked == "name" \in DOMAIN checks

\* C17: validateProjectName gives: "My App" invalid with an error; "my-app"
\* valid with no warnings; "My-App" valid (valid = TRUE) with the lowercase
\* warning.
C17_CaseMismatchIsWarning ==
    NameChecked =>
        /\ projectName = <<"M", "y", " ", "A", "p", "p">> =>
              ~checks["name"].valid /\ checks["name"].errors # <<>>
        /\ projectName = <<"m", "y", "-", "a", "p", "p">> =>
              checks["name"].valid /\ checks["name"].warnings = <<>>
        /\ projectName = <<"M", "y", "-", "A", "p", "p">> =>
              /\ checks["name"].valid
              /\ "Project name should be lowercase" \in Range(checks["name"].warnings)

\* The path check of the run has been executed.
PathChecked == "path" \in DOMAIN checks

\* C18 as stated: with a writable parent, a missing path or an empty directory
\* is valid without warnings, a directory with entries is valid with the
\* overwrite warning, a plain file is invalid; with a non-writable parent the
\* path is invalid.
C18_PathRulesOriginal ==
    PathChecked =>
        LET v == checks["path"] IN
        /\ (target.parentWritable /\ target.state \in {"missing", "emptyDir"}) =>
              v.valid /\ v.warnings = <<>>
        /\ (target.parentWritable /\ target.state = "nonEmptyDir") =>
              /\ v.valid
              /\ v.warnings = <<"Directory is not empty. Files may be overwritten">>
        /\ target.state = "file" => ~v.valid
        /\ ~target.parentWritable => ~v.valid

\* C18: the same rules for a path whose existing directory can be listed; an
\* existing directory that cannot be listed is invalid.
C18_PathRules ==
    PathChecked =>
        LET v == checks["path"] IN
        /\ (target.parentWritable /\ target.readable
               /\ target.state \in {"missing", "emptyDir"}) =>
              v.valid /\ v.warnings = <<>>
        /\ (target.parentWritable /\ target.readable /\ target.state = "nonEmptyDir") =>
              /\ v.valid
              /\ v.warnings = <<"Directory is not empty. Files may be overwritten">>
        /\ target.state = "file" => ~v.valid
        /\ ~target.readable => ~v.valid
        /\ ~target.parentWritable => ~v.valid

\* C18 witness: the path check has accepted, with the overwrite warning, a
\* listable directory with entries under a writable parent.
C18_Witness ==
    /\ PathChecked
    /\ target = [state |-> "nonEmptyDir", parentWritable |-> TRUE, readable |-> TRUE]
    /\ checks["path"].valid
    /\ checks["path"].warnings # <<>>

-----------------------------------------------------------------------------
(* Properties of package-manager detection, checked under SpecDetect *)

PackageManagers == {"npm", "yarn", "pnpm"}

ConfigDeclares == config.found /\ config.packageManager # ""

\* C14: the detected package manager follows a fixed precedence: pnpm-lock.yaml
\* gives pnpm, else yarn.lock gives yarn, else the manager the configuration
\* declares, else yarn if its probe succeeds, else pnpm if its probe succeeds,
\* else npm; a failed probe or configuration load counts as absent, and the
\* detection always returns.
C14_DetectionPrecedence ==
    /\ \A f \in ConfigFiles : f.state # "found" => loadConfig(f) = NoConfig
    /\ pc = "detected" =>
          resolved["packageManager"] =
             CASE env.pnpmLock -> "pnpm"
               [] ~env.pnpmLock /\ env.yarnLock -> "yarn"
               [] ~env.pnpmLock /\ ~env.yarnLock /\ ConfigDeclares ->
                     config.packageManager
               [] ~env.pnpmLock /\ ~env.yarnLock /\ ~ConfigDeclares /\ env.yarnOk ->
                     "yarn"
               [] ~env.pnpmLock /\ ~env.yarnLock /\ ~ConfigDeclares /\ ~env.yarnOk
                     /\ env.pnpmOk -> "pnpm"
               [] OTHER -> "npm"

\* C14 witness: a yarn.lock at the project path has decided for yarn although
\* the configuration declares pnpm.
C14_Witness ==
    /\ pc = "detected"
    /\ env.yarnLock /\ ~env.pnpmLock
    /\ config.found /\ config.packageManager = "pnpm"
    /\ resolved["packageManager"] = "yarn"

\* C15: the packageManager field of every resolved record is one of npm,
\* yarn, pnpm.
C15_PackageManagerInEnumeration ==
    pc = "detected" => resolved["packageManager"] \in PackageManagers

-----------------------------------------------------------------------------
(* Properties of the dependency lists, checked under SpecDeps *)

\* The view and CSS engines of the resolved record are undefined or in the
\* supported lists.
EnginesSupported ==
    /\ getFinalViewEngine(resolved) \in SUPPORTED_VIEW_ENGINES \cup {""}
    /\ getFinalCSSEngine(resolved) \in SUPPORTED_CSS_ENGINES \cup {""}

\* C19: for a resolved record with supported engine names, no package name
\* is in both the runtime and the development dependency list.
C19_ListsDisjoint ==
    (pc = "dependencies" /\ EnginesSupported) =>
        Range(packages.dependencies) \cap Range(packages.devDependencies) = {}

\* C19 witness: the lists of a TypeScript record with a supported view engine
\* and MongoDB have been computed; the development list holds type packages.
C19_Witness ==
    /\ pc = "dependencies"
    /\ resolved["isTypescript"]
    /\ "ejs" \in Range(packages.dependencies)
    /\ "mongoose" \in Range(packages.dependencies)
    /\ "@types/mongoose" \in Range(packages.devDependencies)

\* C20: the lists are a function of the resolved record alone: computing them
\* again gives the lists computed before, both are defined (the runtime list
\* starts with express, the development list with nodemon), and for a record
\* with mongodb, auth and isTypescript the runtime list has mongoose,
\* jsonwebtoken, bcryptjs and the development list has the TypeScript
\* toolchain and the three type-declaration packages.
C20_ListsPureAndComplete ==
    pc = "dependencies" =>
        /\ packages.dependencies = getRequiredDependencies(resolved)
        /\ packages.devDependencies = getRequiredDevDependencies(resolved)
        /\ Head(packages.dependencies) = "express"
        /\ Head(packages.devDependencies) = "nodemon"
        /\ (Truthy(resolved, "mongodb") /\ Truthy(resolved, "auth")
               /\ resolved["isTypescript"]) =>
              /\ {"mongoose", "jsonwebtoken", "bcryptjs"}
                    \subseteq Range(packages.dependencies)
              /\ {"typescript", "@types/node", "@types/express", "ts-node", "tsx",
                  "@types/mongoose", "@types/jsonwebtoken", "@types/bcryptjs"}
                    \subseteq Range(packages.devDependencies)

\* C20 witness: the lists of {mongodb, auth, typescript} have been computed.
C20_Witness ==
    /\ pc = "dependencies"
    /\ RawIs([mongodb |-> TRUE, auth |-> TRUE, typescript |-> TRUE])
    /\ resolved["isTypescript"]
    /\ packages.dependencies =
          <<"express", "dotenv", "mongoose", "jsonwebtoken", "bcryptjs">>

-----------------------------------------------------------------------------
(* Further properties of the createProject run, checked under Spec *)

Resolved == \E i \in DOMAIN stages : stages[i] = <<"resolve", "ok">>

\* C23: from the return of resolveOptions to the end of the run the
\* ResolvedOptions record is the record resolveOptions returned: no stage
\* (dry-run display, materializer, installer, git initializer, completion
\* report) changes any field of it.
C23_ResolvedImmutable ==
    Resolved =>
        resolved = resolveOptions(sanitizeProjectName(projectName),
                                  PathOf(sanitizeProjectName(projectName)), merged)

\* C23 witness: a run has gone through materialization, install and git and
\* has ended with the report.
C23_Witness ==
    /\ pc = "exited"
    /\ Resolved
    /\ {"projectFiles", "node_modules", "gitRepository"} \subseteq fsDone
    /\ stages[Len(stages)] = <<"report", "ok">>

InstallLogged == \E i \in DOMAIN stages : stages[i][1] \in {"install", "installRuntime"}

InstallExecuted == \E i \in DOMAIN stages : stages[i][1] = "installRuntime"

GitLogged == \E i \in DOMAIN stages : stages[i][1] = "git"

\* C26: the install stage is executed exactly when skipInstall is not set in
\* the ResolvedOptions record, and the git stage exactly when skipGit is not
\* set and git is not false in it, whether the flag came from the command
\* line or from the defaults of the configuration file.
C26_SkipFollowsResolved ==
    /\ InstallLogged => (InstallExecuted <=> ~Truthy(resolved, "skipInstall"))
    /\ GitLogged =>
          (GitCalled <=> /\ ~Truthy(resolved, "skipGit")
                         /\ ~(Has(resolved, "git") /\ resolved["git"] = FALSE))

\* The outcome of the git stage of the run, "" before it.
GitOutcome ==
    IF GitLogged THEN (CHOOSE st \in Range(stages) : st[1] = "git")[2] ELSE ""

\* The position of a command among those initializeGit ran, 0 if it did not
\* run it.
GitPosition(command) ==
    IF command \in Range(exec.git)
    THEN CHOOSE i \in DOMAIN exec.git : exec.git[i] = command
    ELSE 0

GitWrites == fsDone \cap {"gitRepository", "gitignore"}

\* C28: initializeGit changes the project directory only when git is
\* available and the directory is no repository yet: otherwise no git init,
\* no .gitignore, no commit.  When it proceeds the order is git init,
\* .gitignore, staging, commit; a commit is attempted only with .gitignore
\* written; and with nothing staged or without a git identity the commit
\* step ends without failure (initializeGit goes on past it).
C28_GitOrder ==
    GitCalled =>
        /\ GitOutcome \in {"unavailable", "alreadyRepository"} =>
              /\ GitWrites = {}
              /\ exec.git = <<"git --version">>
        /\ GitPosition("write .gitignore") > 0 =>
              GitPosition("git init") > 0
                 /\ GitPosition("git init") < GitPosition("write .gitignore")
        /\ GitPosition("git add") > 0 =>
              GitPosition("write .gitignore") > 0
                 /\ GitPosition("write .gitignore") < GitPosition("git add")
        /\ GitPosition("git commit") > 0 =>
              /\ GitPosition("git add") < GitPosition("git commit")
              /\ "gitignore" \in fsDone
        /\ GitWrites # {} => GitPosition("git init") = 2
        /\ GitOutcome = "nothingToCommit" =>
              GitPosition("git commit") = 0 /\ GitPosition("git config") > 0
        /\ GitOutcome = "noIdentity" => GitPosition("git config") > 0

\* C28 witness: initializeGit has created the repository and .gitignore and
\* skipped the commit for a missing identity.
C28_Witness ==
    /\ GitOutcome = "noIdentity"
    /\ exec.git = <<"git --version", "git init", "write .gitignore", "git add",
                    "git diff", "git commit", "git config">>
    /\ pc = "exited"
    /\ exitCode = 0

-----------------------------------------------------------------------------
(* Properties of the install subprocesses, checked under SpecInstall *)

\* The result each first event gives.
ResultOfEvent(ev) ==
    CASE ev = "timeout" -> "timeout"
      [] ev = "close0" -> "success"
      [] ev = "close1" -> "exitNonZero"
      [] ev = "error" -> "spawnError"
      [] OTHER -> "pending"

\* C22: a subprocess that has not closed when its timeout expires is sent
\* one termination signal and its step is reported as failed with the timeout
\* error; once the timeout has fired the result is never success, also after
\* the process has exited with code 0, and the step makes installDependencies
\* reject.
C22_TimeoutKillsAndFails ==
    \A class \in Classes :
        exec[class].timer = "fired" =>
            /\ exec[class].signalled = <<"running">>
            /\ exec[class].result = "timeout"
            /\ pc \notin {"execDev", "installResolved"} \/ class # "runtime"
            /\ pc # "installResolved"

\* C22 witness: the runtime subprocess was terminated on timeout and has
\* then exited with code 0 (a second resolve call was made); its result is
\* still the timeout.
C22_Witness ==
    /\ exec.runtime.timer = "fired"
    /\ exec.runtime.child = "closed"
    /\ exec.runtime.resolveCalls = 2
    /\ exec.runtime.result = "timeout"
    /\ pc = "installRejected"

\* C25: the promise is settled by the first of timeout, close and error, and
\* by nothing else: its result is the one of the first event and it is never
\* a rejection; when close or error came first the timer is cancelled, and a
\* termination signal is only ever sent to a child that has not closed.
C25_SettlesOnceFirstEventWins ==
    \A class \in Classes :
        LET p == exec[class] IN
        /\ p.result = ResultOfEvent(p.first)
        /\ p.result \in {"pending", "success", "exitNonZero", "spawnError", "timeout"}
        /\ p.first \in {"close0", "close1", "error"} =>
              p.timer = "cleared" /\ p.signalled = <<>>
        /\ \A i \in DOMAIN p.signalled : p.signalled[i] = "running"
        /\ Len(p.signalled) <= 1

\* C25 witness: the development subprocess closed with a non-zero code
\* before its timeout; the timer is cancelled and the result is the failure.
C25_Witness ==
    /\ exec.dev.first = "close1"
    /\ exec.dev.elapsed = 1
    /\ exec.dev.timer = "cleared"
    /\ exec.dev.result = "exitNonZero"
    /\ pc = "installRejected"

\* C27: the development subprocess is spawned only after the runtime
\* subprocess has closed with success; after a failed runtime installation it
\* is never spawned and installDependencies rejects.
C27_RuntimeBeforeDev ==
    /\ exec.dev.child # "none" =>
          exec.runtime.result = "success" /\ exec.runtime.child = "closed"
    /\ exec.runtime.result \notin {"pending", "success"} =>
          /\ exec.dev.child = "none"
          /\ pc \in {"execRuntime", "installRejected"}
    /\ pc = "installResolved" =>
          exec.runtime.result = "success" /\ exec.dev.result = "success"

\* C27 witness: installDependencies has rejected after the runtime
\* subprocess exited with a non-zero code; no development subprocess exists.
C27_Witness ==
    /\ pc = "installRejected"
    /\ exec.runtime.result = "exitNonZero"
    /\ exec.dev = NoProcess

-----------------------------------------------------------------------------
(* Properties of the interactive flow, checked under SpecInit *)

\* C29: in the interactive flow the language line of the confirmed summary
\* names the language of the project that is created (isTypescript of the
\* record resolved from the options passed to createProject), and a project
\* is created only after the user has confirmed.
C29_SummaryLanguageIsCreated ==
    /\ pc = "initCreated" =>
          printed[1] = (IF resolved["isTypescript"] THEN "Language: TypeScript"
                        ELSE "Language: JavaScript")
    /\ resolved # Unresolved => answers.proceed /\ printed # <<>>

-----------------------------------------------------------------------------
(* Properties of the sanitized project name, checked under Spec *)

\* The name check of createProject has accepted the project name.
NameAccepted == Has(checks, "name") /\ checks["name"].valid

\* C30: for every project name that validateProjectName accepts,
\* sanitizeProjectName returns a non-empty name, so the project path of
\* createProject is a proper subdirectory of the working directory and never
\* the working directory itself; and sanitizeProjectName is idempotent.
C30_SanitizedNameProper ==
    LET sanitizedName == sanitizeProjectName(projectName) IN
    /\ NameAccepted =>
          /\ sanitizedName # <<>>
          /\ PathOf(sanitizedName) # <<"cwd">>
    /\ sanitizeProjectName(sanitizedName) = sanitizedName

=============================================================================
